---- MODULE Spec2Model ----
(***************************************************************************)
(* Model of the access-control layer of the BigQuery API service:          *)
(* AuthMiddleware.dispatch, validate_firebase_token, get_user_info, the    *)
(* TTL cache user_cache and the cache utilities of app/auth.py, with the   *)
(* exception classes of app/exceptions.py.                                 *)
(*                                                                         *)
(* Strings that the code slices or compares by prefix (URL paths, the      *)
(* Authorization header) are sequences of one-character strings.  Emails   *)
(* are the sequence of their '@'-separated parts, i.e. email.split("@").   *)
(***************************************************************************)
EXTENDS Integers, Sequences, FiniteSets, TLC

VARIABLES
    clock,                \* the time read by time.time() and by the cache timer
    settings,             \* the Settings object of config.py
    user_cache,           \* TTLCache: entries in link order, oldest first
    users,                \* Firestore collection "users", by uid
    clients,              \* Firestore collection "clients", by company id
    req,                  \* the request being served
    watched,              \* the subject whose resolutions hist records
    hist                  \* the last identity stored for the watched subject
                          \* and what happened to its cache entry since

vars == <<clock, settings, user_cache, users, clients, req, watched, hist>>

---------------------------------------------------------------------------
(* Bounds of the model *)

\* Last instant of the clock; the clock advances in steps of ClockStep.
MaxClock == 300

\* Capacity of user_cache.  The source sets maxsize=1000 (auth.py:55); the
\* model scales it down so that the capacity eviction of TTLCache happens
\* with the subjects of Uids.
MaxSize == 1

---------------------------------------------------------------------------
(* Program constants *)

\* TTLCache(maxsize=1000, ttl=300)
TTL == 300

ClockSteps == {TTL \div 2}

\* Python's None, for string-valued fields
None == "<None>"

\* dict.get(...) of a list-valued field that the document does not have
MissingList == <<"<missing>">>

\* A value is falsy in Python when it is None or empty
Falsy(v) == v \in {None, ""}

---------------------------------------------------------------------------
(* String helpers *)

StartsWith(s, p) ==
    /\ Len(p) <= Len(s)
    /\ SubSeq(s, 1, Len(p)) = p

\* s[n:]
Drop(s, n) == IF n >= Len(s) THEN <<>> ELSE SubSeq(s, n + 1, Len(s))

InList(x, l) == \E i \in 1..Len(l) : l[i] = x

---------------------------------------------------------------------------
(* Settings (config.py) *)

\* gcp_project_id: required setting, the default project
gcp_project_id == "proj-default"

\* super_admin_domains: default ["be-luma.com"]
super_admin_domains == <<"be-luma.com">>

\* accessible_projects: default [] ; a deployment may configure a list
AccessibleProjectsChoices == { <<>>, <<"proj-a", "proj-b">> }

\* The lists of domain names a deployment may configure as
\* super_admin_domains
AdminDomainsChoices ==
    { super_admin_domains, <<"be-luma.com", "admin.io">>, <<>> }

---------------------------------------------------------------------------
(* Exceptions (exceptions.py).  cls is the class of the exception and base  *)
(* the class the except clauses of auth.py match it by: AuthenticationError *)
(* or AuthorizationError, or Other for an exception that is neither.       *)

Exc(cls, base, status, code, detail) ==
    [cls |-> cls, base |-> base, status_code |-> status, code |-> code,
     detail |-> detail]

AuthenticationError(detail) ==
    Exc("AuthenticationError", "AuthenticationError", 401, "AUTH_ERROR", detail)

AuthorizationError(detail) ==
    Exc("AuthorizationError", "AuthorizationError", 403, "AUTHORIZATION_ERROR", detail)

InvalidTokenError ==
    Exc("InvalidTokenError", "AuthenticationError", 401, "INVALID_TOKEN",
        "Invalid or expired authentication token")

MissingTokenError ==
    Exc("MissingTokenError", "AuthenticationError", 401, "MISSING_TOKEN",
        "Authentication token not provided")

UserNotFoundError ==
    Exc("UserNotFoundError", "AuthenticationError", 401, "USER_NOT_FOUND",
        "User not found in database")

CompanyNotFoundError ==
    Exc("CompanyNotFoundError", "AuthorizationError", 403, "COMPANY_NOT_FOUND",
        "Company not found or access denied")

ProjectAccessDeniedError(project_id) ==
    [ cls |-> "ProjectAccessDeniedError", base |-> "AuthorizationError",
      status_code |-> 403, code |-> "PROJECT_ACCESS_DENIED",
      detail |-> "Access denied to project: ", project_id |-> project_id ]

\* AuthorizationError(f"Permission required: {permission}")
PermissionRequired(permission) ==
    [ cls |-> "AuthorizationError", base |-> "AuthorizationError",
      status_code |-> 403, code |-> "AUTHORIZATION_ERROR",
      detail |-> "Permission required: ", permission |-> permission ]

\* KeyError raised by TTLCache.__getitem__ for a missing or expired key
KeyError == Exc("KeyError", "Other", 0, "", "KeyError")

\* An unexpected failure of the Firestore client (google.api_core error)
FirestoreFailure == Exc("GoogleAPICallError", "Other", 0, "", "firestore unavailable")

NoExc == [none |-> TRUE]

---------------------------------------------------------------------------
(* UserInfo *)

NoUser == [none |-> TRUE]

\* An identity that keeps the permissions list it was given
PermissionsOrRead_AsGiven(permissions) == permissions

\* self.permissions = permissions or ["read"]
PermissionsOrRead(permissions) ==
    IF permissions = <<>> THEN <<"read">> ELSE permissions

\* An identity that keeps no project list for a super admin
UserInfo_AdminNoScopes(uid, email, email_verified, company_id, project, company_name, is_super_admin, accessible_projects, permissions) ==
    [ uid                 |-> uid,
      email               |-> email,
      email_verified      |-> email_verified,
      company_id          |-> company_id,
      gcp_project_id      |-> project,
      company_name        |-> company_name,
      is_super_admin      |-> is_super_admin,
      accessible_projects |-> IF is_super_admin THEN <<>>
                              ELSE IF accessible_projects = <<>> THEN <<project>>
                              ELSE accessible_projects,
      permissions         |-> PermissionsOrRead(permissions) ]

UserInfo(uid, email, email_verified, company_id, project, company_name, is_super_admin, accessible_projects, permissions) ==
    [ uid                 |-> uid,
      email               |-> email,
      email_verified      |-> email_verified,
      company_id          |-> company_id,
      gcp_project_id      |-> project,
      company_name        |-> company_name,
      is_super_admin      |-> is_super_admin,
      accessible_projects |-> IF accessible_projects = <<>> THEN <<project>>
                              ELSE accessible_projects,
      permissions         |-> PermissionsOrRead(permissions) ]

\* A project check that knows no super admin
can_access_project_ListOnly(user, project_id) ==
    InList(project_id, user.accessible_projects)

can_access_project(user, project_id) ==
    user.is_super_admin \/ InList(project_id, user.accessible_projects)

\* A permission check that knows no super admin
has_permission_ListOnly(user, permission) ==
    InList(permission, user.permissions)

has_permission(user, permission) ==
    user.is_super_admin \/ InList(permission, user.permissions)

---------------------------------------------------------------------------
(* user_cache = TTLCache(maxsize, ttl): cachetools keeps one link per key, *)
(* in insertion order, each with the instant it expires.  An expired link  *)
(* stays in the structure until expire() runs (on insertion or popitem).   *)

CacheIndex(cache, key) ==
    IF \E i \in 1..Len(cache) : cache[i].key = key
    THEN CHOOSE i \in 1..Len(cache) : cache[i].key = key
    ELSE 0

\* A membership test that still finds an entry at the instant it expires
CacheContains_Inclusive(cache, key, now) ==
    \E i \in 1..Len(cache) : cache[i].key = key /\ now <= cache[i].expires

\* key in user_cache
CacheContains(cache, key, now) ==
    \E i \in 1..Len(cache) : cache[i].key = key /\ now < cache[i].expires

\* user_cache[key], for a key that is present and not expired
CacheGet(cache, key) == cache[CacheIndex(cache, key)].value

\* TTLCache.expire(time)
CacheExpire(cache, now) == SelectSeq(cache, LAMBDA e : now < e.expires)

CacheRemove(cache, key) == SelectSeq(cache, LAMBDA e : e.key # key)

\* Cache.__setitem__ evicts with popitem(), which removes the oldest link,
\* until the new item fits
RECURSIVE CacheMakeRoom(_)
CacheMakeRoom(cache) ==
    IF Len(cache) + 1 > MaxSize THEN CacheMakeRoom(Tail(cache)) ELSE cache

\* An insertion that gives the entry no time to live
CacheSet_NoTTL(cache, key, value, now) ==
    LET live  == CacheExpire(cache, now)
        entry == [key |-> key, value |-> value, expires |-> now]
    IN  IF CacheIndex(live, key) # 0
        THEN Append(CacheRemove(live, key), entry)
        ELSE Append(CacheMakeRoom(live), entry)

\* user_cache[key] = value
CacheSet(cache, key, value, now) ==
    LET live  == CacheExpire(cache, now)
        entry == [key |-> key, value |-> value, expires |-> now + TTL]
    IN  IF CacheIndex(live, key) # 0
        THEN Append(CacheRemove(live, key), entry)
        ELSE Append(CacheMakeRoom(live), entry)

\* A cache key that leaves the subject out
CacheKey_NoSubject(uid) == <<"user_", "">>

\* cache_key = f"user_{uid}"
CacheKey(uid) == <<"user_", uid>>

---------------------------------------------------------------------------
(* Requests: URL paths and Authorization headers *)

ApiQueryPath == <<"/", "a", "p", "i", "/", "b", "i", "g", "q", "u", "e", "r", "y", "/", "q", "u", "e", "r", "y">>

HealthPath == <<"/", "h", "e", "a", "l", "t", "h">>

HealthInternalPath == <<"/", "h", "e", "a", "l", "t", "h", "-", "i", "n", "t", "e", "r", "n", "a", "l">>

\* The path of a request whose target is not an absolute path, such as
\* "OPTIONS *": request.url.path is then the empty string
EmptyPath == <<>>

\* AuthMiddleware.public_paths
public_paths ==
    { <<"/", "h", "e", "a", "l", "t", "h">>,
      <<"/", "h", "e", "a", "l", "t", "h", "/">>,
      <<"/", "h", "e", "a", "l", "t", "h", "/", "l", "i", "v", "e">>,
      <<"/", "h", "e", "a", "l", "t", "h", "/", "r", "e", "a", "d", "y">>,
      <<"/", "m", "e", "t", "r", "i", "c", "s">>,
      <<"/">>,
      <<"/", "d", "o", "c", "s">>,
      <<"/", "r", "e", "d", "o", "c">>,
      <<"/", "o", "p", "e", "n", "a", "p", "i", ".", "j", "s", "o", "n">> }

\* any(request.url.path.startswith(path) for path in self.public_paths)
IsPublicPath(path) == \E p \in public_paths : StartsWith(path, p)

\* request.headers.get("authorization") of a request without the header
NoHeader == <<None>>

BearerPrefix == <<"B", "e", "a", "r", "e", "r", " ">>

Headers ==
    { NoHeader,
      <<>>,
      <<"B", "a", "s", "i", "c", " ", "A">>,
      <<"b", "e", "a", "r", "e", "r", " ", "A">>,
      BearerPrefix,
      BearerPrefix \o <<"A">>,
      BearerPrefix \o <<"S">>,
      BearerPrefix \o <<"B">>,
      BearerPrefix \o <<"X">> }

\* The requests clients send: the protected API route and the probes, and
\* every header with the path the gateway authenticates
Requests ==
    { <<ApiQueryPath, NoHeader>>,
      <<ApiQueryPath, BearerPrefix \o <<"A">> >>,
      <<HealthPath, NoHeader>>,
      <<HealthInternalPath, NoHeader>> }
    \cup { <<EmptyPath, h>> : h \in Headers }

---------------------------------------------------------------------------
(* The identity provider (Firebase Auth) *)

Uids == {"u1", "u2"}

\* decoded_token.get("email") of a token without an email claim
NoEmail == <<>>

NoClaims == [none |-> TRUE]

Claims(uid, email, email_verified, exp) ==
    [uid |-> uid, email |-> email, email_verified |-> email_verified,
     exp |-> exp, iat |-> 0]

\* The claims the provider signed into each token; a token it never issued
\* is malformed.  Tokens A and S are two tokens of subject u1, issued
\* before and after its email changed to a super-admin domain.
TokenClaims(token) ==
    CASE token = <<"A">> -> Claims("u1", <<"a", "tenant.co">>, TRUE, 300)
      [] token = <<"S">> -> Claims("u1", <<"ops", "be-luma.com">>, FALSE, 900)
      [] token = <<"B">> -> Claims("u2", NoEmail, FALSE, 900)
      [] OTHER -> NoClaims

\* What firebase_auth.verify_id_token(token, check_revoked=True) can do at
\* instant now: return the claims, or raise InvalidIdTokenError,
\* ExpiredIdTokenError (exp is in the past), RevokedIdTokenError, or fail
\* unexpectedly (network, certificate fetch).
VerifyOutcomes(token, now) ==
    LET c == TokenClaims(token) IN
    {"unavailable"} \cup
    ( IF c = NoClaims THEN {"invalid"}
      ELSE IF c.exp < now THEN {"expired"}
      ELSE {"ok", "revoked"} )

---------------------------------------------------------------------------
(* The tenant directory (Firestore) *)

Companies == {"t1", "t2", "super-admin"}

NoDoc == [exists |-> FALSE]

UserDoc(company_id, permissions) ==
    [exists |-> TRUE, company_id |-> company_id, permissions |-> permissions,
     email_verified |-> TRUE]

ClientDoc(gcpProjectId) == [exists |-> TRUE, gcpProjectId |-> gcpProjectId]

\* The documents an administrator may write while the service runs
UserDocs == { NoDoc, UserDoc(None, MissingList),
              UserDoc("t1", MissingList), UserDoc("t2", MissingList) }

ClientDocs == { NoDoc, ClientDoc(None), ClientDoc("proj-42") }

MutableUsers == {"u1"}

MutableClients == {"t1"}

---------------------------------------------------------------------------
(* State *)

NoGuard == [none |-> TRUE]

NoRoute == [none |-> TRUE]

NoHist == [stored |-> FALSE, value |-> NoUser, at |-> 0,
           inval |-> FALSE, evicted |-> FALSE, cleared |-> FALSE]

IdleReq ==
    [ pc         |-> "idle",
      path       |-> EmptyPath,
      header     |-> NoHeader,
      token      |-> <<>>,          \* auth_header[7:]
      claims     |-> NoClaims,      \* firebase_user
      user_data  |-> NoDoc,
      client_data |-> NoDoc,
      user_info  |-> NoUser,        \* the value get_user_info returns
      state_user |-> NoUser,        \* request.state.user
      outcome    |-> "none",        \* "forwarded" (call_next) or "rejected"
      exc        |-> NoExc,         \* the exception dispatch raised
      \* what this request has done so far
      extracted  |-> FALSE,
      verified   |-> 0,             \* calls of verify_id_token
      cache_looks |-> 0,            \* lookups in user_cache
      policy     |-> FALSE,         \* the super-admin test was evaluated
      dir_reads  |-> 0,             \* Firestore documents read
      provider   |-> "none",        \* what verify_id_token did
      infra      |-> FALSE,         \* a Firestore call raised unexpectedly
      stale      |-> FALSE,         \* the membership test met an expired entry
      from_cache |-> FALSE,
      returned_at |-> 0,            \* instant get_user_info returned
      handled    |-> FALSE,         \* the route handler was invoked
      prior      |-> NoHist,        \* hist of the subject when resolution began
      guard      |-> NoGuard,       \* the route dependency evaluated, if any
      route      |-> NoRoute ]      \* the route handler's run, if any

Init ==
    /\ clock = 0
    /\ settings \in [accessible_projects : AccessibleProjectsChoices,
                     super_admin_domains : {super_admin_domains}]
    /\ user_cache = <<>>
    /\ users = [u \in Uids |-> IF u = "u1" THEN UserDoc("t1", MissingList)
                                           ELSE UserDoc("t2", MissingList)]
    /\ clients = [c \in Companies |->
                    CASE c = "t1" -> ClientDoc("proj-42")
                      [] c = "t2" -> ClientDoc("proj-99")
                      [] OTHER    -> NoDoc]
    /\ req = IdleReq
    /\ watched \in Uids
    /\ hist = NoHist

\* hist keeps the last store of a subject while its TTL window is open
Forget(h, now) ==
    IF h.stored /\ now >= h.at + TTL
    THEN [NoHist EXCEPT !.cleared = h.cleared]
    ELSE h

\* hist after an invalidation of the watched subject
Invalidated(h) == [h EXCEPT !.inval = h.stored, !.cleared = TRUE]

\* A request arrives when the previous one is over.  The environment acts
\* between requests and while one is in the gateway;
\* what it does while a handler runs or before a finished request is
\* retired is the same as doing it right after.
EnvTurn == req.pc \notin {"handler", "done"}

---------------------------------------------------------------------------
(* Environment *)

\* Time passes
Tick ==
    /\ EnvTurn
    /\ \E d \in ClockSteps : /\ clock + d <= MaxClock
                             /\ clock' = clock + d
    /\ hist' = Forget(hist, clock')
    /\ UNCHANGED <<settings, user_cache, users, clients, req, watched>>

\* An administrator writes a user document
WriteUser ==
    /\ EnvTurn
    /\ \E u \in MutableUsers, d \in UserDocs :
          /\ users[u] # d
          /\ users' = [users EXCEPT ![u] = d]
    /\ UNCHANGED <<clock, settings, user_cache, clients, req, watched, hist>>

\* An administrator writes a client (company) document
WriteClient ==
    /\ EnvTurn
    /\ \E c \in MutableClients, d \in ClientDocs :
          /\ clients[c] # d
          /\ clients' = [clients EXCEPT ![c] = d]
    /\ UNCHANGED <<clock, settings, user_cache, users, req, watched, hist>>

\* The request r as it enters dispatch
Arrived(r) == [IdleReq EXCEPT !.pc = "dispatch", !.path = r[1], !.header = r[2]]

---------------------------------------------------------------------------
(* AuthMiddleware.dispatch *)

\* except (AuthenticationError, AuthorizationError) as e: raise e
\* except Exception: raise AuthenticationError(...)
DispatchCatch(e) ==
    IF e.base \in {"AuthenticationError", "AuthorizationError"}
    THEN e
    ELSE AuthenticationError("Authentication service unavailable")

\* A gateway that records the failure and lets the request through
Rejected_StillForwarded(r, e) ==
    [r EXCEPT !.pc = "handler", !.outcome = "rejected", !.exc = DispatchCatch(e)]

\* dispatch raises: the request ends without call_next
Rejected(r, e) == [r EXCEPT !.pc = "done", !.outcome = "rejected",
                            !.exc = DispatchCatch(e)]

\* if any(request.url.path.startswith(path) ...): return await call_next(request)
PublicBypass ==
    /\ req.pc = "idle"
    /\ \E r \in Requests :
         /\ IsPublicPath(r[1])
         /\ req' = [Arrived(r) EXCEPT !.pc = "handler", !.outcome = "forwarded"]
    /\ UNCHANGED <<clock, settings, user_cache, users, clients, watched, hist>>

\* An extraction without the test for an empty token
ExtractToken_NoEmptyCheck ==
    /\ req.pc = "idle"
    /\ \E r \in Requests :
         /\ ~IsPublicPath(r[1])
         /\ LET auth_header == r[2]
                token == Drop(auth_header, 7)
            IN  IF \/ auth_header = NoHeader
                   \/ auth_header = <<>>
                   \/ ~StartsWith(auth_header, BearerPrefix)
                THEN req' = Rejected(Arrived(r), MissingTokenError)
                ELSE req' = [Arrived(r) EXCEPT !.pc = "verify", !.token = token,
                                               !.extracted = TRUE]
    /\ UNCHANGED <<clock, settings, user_cache, users, clients, watched, hist>>

\* Extract the token from the Authorization header
ExtractToken ==
    /\ req.pc = "idle"
    /\ \E r \in Requests :
         /\ ~IsPublicPath(r[1])
         /\ LET auth_header == r[2]
                token == Drop(auth_header, 7)
            IN  IF \/ auth_header = NoHeader
                   \/ auth_header = <<>>
                   \/ ~StartsWith(auth_header, BearerPrefix)
                THEN req' = Rejected(Arrived(r), MissingTokenError)
                ELSE IF token = <<>>
                THEN req' = Rejected(Arrived(r), MissingTokenError)
                ELSE req' = [Arrived(r) EXCEPT !.pc = "verify", !.token = token,
                                               !.extracted = TRUE]
    /\ UNCHANGED <<clock, settings, user_cache, users, clients, watched, hist>>

\* A verifier without the clause for RevokedIdTokenError
VerifyError_RevokedUnhandled(outcome) ==
    IF outcome \in {"invalid", "expired"}
    THEN InvalidTokenError
    ELSE AuthenticationError("Token validation failed")

\* The exception validate_firebase_token raises for each way
\* verify_id_token fails
VerifyError(outcome) ==
    IF outcome \in {"invalid", "expired", "revoked"}
    THEN InvalidTokenError
    ELSE AuthenticationError("Token validation failed")

\* firebase_user = await validate_firebase_token(token)
ValidateToken ==
    /\ req.pc = "verify"
    /\ \E outcome \in VerifyOutcomes(req.token, clock) :
          IF outcome = "ok"
          THEN req' = [req EXCEPT !.pc = "expiry",
                                  !.claims = TokenClaims(req.token),
                                  !.provider = outcome,
                                  !.verified = @ + 1]
          ELSE req' = [Rejected(req, VerifyError(outcome)) EXCEPT
                                  !.provider = outcome,
                                  !.verified = @ + 1]
    /\ UNCHANGED <<clock, settings, user_cache, users, clients, watched, hist>>

\* An expiry test that accepts a token at the instant it expires
TokenExpired_Strict(claims, now) == claims.exp < now

\* firebase_user["exp"] <= now
TokenExpired(claims, now) == claims.exp <= now

\* Check token expiration
CheckExpiry ==
    /\ req.pc = "expiry"
    /\ IF TokenExpired(req.claims, clock)
       THEN req' = Rejected(req, InvalidTokenError)
       ELSE req' = [req EXCEPT !.pc = "cache_check"]
    /\ UNCHANGED <<clock, settings, user_cache, users, clients, watched, hist>>

---------------------------------------------------------------------------
(* get_user_info(uid, email) *)

\* A test on the part that follows the first "@"
IsSuperAdmin_FirstAt(email) ==
    IF email = NoEmail \/ email = <<"">>
    THEN FALSE
    ELSE LET email_domain == IF Len(email) > 1 THEN email[2] ELSE ""
         IN  InList(email_domain, settings.super_admin_domains)

\* Check if user is super admin
IsSuperAdmin(email) ==
    IF email = NoEmail \/ email = <<"">>
    THEN FALSE
    ELSE LET email_domain == IF Len(email) > 1 THEN email[Len(email)] ELSE ""
         IN  InList(email_domain, settings.super_admin_domains)

\* A super-admin identity that is not marked as verified
SuperAdminInfo_Unverified(uid, email) ==
    UserInfo(uid, email, FALSE, "super-admin", gcp_project_id, "Be-Luma Admin",
             TRUE,
             IF settings.accessible_projects = <<>> THEN <<gcp_project_id>>
             ELSE settings.accessible_projects,
             <<"read", "write", "admin">>)

SuperAdminInfo(uid, email) ==
    UserInfo(uid, email, TRUE, "super-admin", gcp_project_id, "Be-Luma Admin",
             TRUE,
             IF settings.accessible_projects = <<>> THEN <<gcp_project_id>>
             ELSE settings.accessible_projects,
             <<"read", "write", "admin">>)

\* An identity that grants the deployment's default project
TenantInfo_DefaultScope(uid, email, user_data, client_data) ==
    UserInfo(uid, email, user_data.email_verified, user_data.company_id,
             client_data.gcpProjectId, "Unknown Company", FALSE,
             <<gcp_project_id>>,
             IF user_data.permissions = MissingList THEN <<"read">>
             ELSE user_data.permissions)

TenantInfo(uid, email, user_data, client_data) ==
    UserInfo(uid, email, user_data.email_verified, user_data.company_id,
             client_data.gcpProjectId, "Unknown Company", FALSE,
             <<client_data.gcpProjectId>>,
             IF user_data.permissions = MissingList THEN <<"read">>
             ELSE user_data.permissions)

\* A handler that reports every failure of the lookup as an unknown user
GetUserInfoCatch_AsNotFound(e) ==
    IF e.cls \in {"UserNotFoundError", "CompanyNotFoundError"}
       \/ e.base = "AuthorizationError"
    THEN e
    ELSE UserNotFoundError

\* except (UserNotFoundError, CompanyNotFoundError, AuthorizationError): raise
\* except Exception as e: raise AuthenticationError(...)
GetUserInfoCatch(e) ==
    IF e.cls \in {"UserNotFoundError", "CompanyNotFoundError"}
       \/ e.base = "AuthorizationError"
    THEN e
    ELSE AuthenticationError("Failed to get user information")

\* if cache_key in user_cache:
CacheCheck ==
    /\ req.pc = "cache_check"
    /\ LET uid == req.claims.uid IN
         /\ req' = [req EXCEPT
                      !.pc = IF CacheContains(user_cache, CacheKey(uid), clock)
                             THEN "cache_read" ELSE "policy",
                      !.cache_looks = @ + 1,
                      !.stale = /\ CacheIndex(user_cache, CacheKey(uid)) # 0
                                /\ ~CacheContains(user_cache, CacheKey(uid), clock),
                      !.prior = IF uid = watched THEN hist ELSE NoHist]
         /\ hist' = IF uid = watched THEN [hist EXCEPT !.cleared = FALSE]
                    ELSE hist
    /\ UNCHANGED <<clock, settings, user_cache, users, clients, watched>>

\* return user_cache[cache_key]
\* The timer is read again: an entry that expired since the membership
\* test raises KeyError, outside the try block of get_user_info.
CacheRead ==
    /\ req.pc = "cache_read"
    /\ LET key == CacheKey(req.claims.uid) IN
         IF CacheContains(user_cache, key, clock)
         THEN req' = [req EXCEPT !.pc = "resolved",
                                 !.user_info = CacheGet(user_cache, key),
                                 !.from_cache = TRUE,
                                 !.returned_at = clock,
                                 !.cache_looks = @ + 1]
         ELSE req' = [Rejected(req, KeyError) EXCEPT !.cache_looks = @ + 1]
    /\ UNCHANGED <<clock, settings, user_cache, users, clients, watched, hist>>

\* The super-admin test and, for a super admin, the construction of UserInfo
SuperAdminPolicy ==
    /\ req.pc = "policy"
    /\ IF IsSuperAdmin(req.claims.email)
       THEN req' = [req EXCEPT !.pc = "store", !.policy = TRUE,
                      !.user_info = SuperAdminInfo(req.claims.uid, req.claims.email)]
       ELSE req' = [req EXCEPT !.pc = "read_user", !.policy = TRUE]
    /\ UNCHANGED <<clock, settings, user_cache, users, clients, watched, hist>>

\* A lookup that caches the absence of the user document
ReadUser_CachesNotFound ==
    /\ req.pc = "read_user"
    /\ LET user_doc == users[req.claims.uid] IN
         IF ~user_doc.exists
         THEN /\ req' = [Rejected(req, GetUserInfoCatch(UserNotFoundError)) EXCEPT
                            !.dir_reads = @ + 1]
              /\ user_cache' = CacheSet(user_cache, CacheKey(req.claims.uid),
                                        NoUser, clock)
         ELSE IF Falsy(user_doc.company_id)
         THEN /\ req' = [Rejected(req, GetUserInfoCatch(
                            AuthorizationError("User not associated with any company")))
                         EXCEPT !.dir_reads = @ + 1, !.user_data = user_doc]
              /\ user_cache' = user_cache
         ELSE /\ req' = [req EXCEPT !.pc = "read_client", !.user_data = user_doc,
                                    !.dir_reads = @ + 1]
              /\ user_cache' = user_cache
    /\ UNCHANGED <<clock, settings, users, clients, watched, hist>>

\* A lookup that reports an unlinked user as an unknown user
ReadUser_LinkAsNotFound ==
    /\ req.pc = "read_user"
    /\ \E ok \in BOOLEAN :
         LET user_doc == users[req.claims.uid] IN
         IF ~ok
         THEN req' = [Rejected(req, GetUserInfoCatch(FirestoreFailure)) EXCEPT
                         !.dir_reads = @ + 1, !.infra = TRUE]
         ELSE IF ~user_doc.exists \/ Falsy(user_doc.company_id)
         THEN req' = [Rejected(req, GetUserInfoCatch(UserNotFoundError)) EXCEPT
                         !.dir_reads = @ + 1]
         ELSE req' = [req EXCEPT !.pc = "read_client", !.user_data = user_doc,
                                 !.dir_reads = @ + 1]
    /\ UNCHANGED <<clock, settings, user_cache, users, clients, watched, hist>>

\* Get user document from Firestore
ReadUser ==
    /\ req.pc = "read_user"
    /\ \E ok \in BOOLEAN :
         LET user_doc == users[req.claims.uid] IN
         IF ~ok
         THEN req' = [Rejected(req, GetUserInfoCatch(FirestoreFailure)) EXCEPT
                         !.dir_reads = @ + 1, !.infra = TRUE]
         ELSE IF ~user_doc.exists
         THEN req' = [Rejected(req, GetUserInfoCatch(UserNotFoundError)) EXCEPT
                         !.dir_reads = @ + 1]
         ELSE IF Falsy(user_doc.company_id)
         THEN req' = [Rejected(req, GetUserInfoCatch(
                         AuthorizationError("User not associated with any company")))
                      EXCEPT !.dir_reads = @ + 1, !.user_data = user_doc]
         ELSE req' = [req EXCEPT !.pc = "read_client", !.user_data = user_doc,
                                 !.dir_reads = @ + 1]
    /\ UNCHANGED <<clock, settings, user_cache, users, clients, watched, hist>>

\* Get client document, then construct UserInfo
ReadClient ==
    /\ req.pc = "read_client"
    /\ \E ok \in BOOLEAN :
         LET client_doc == clients[req.user_data.company_id] IN
         IF ~ok
         THEN req' = [Rejected(req, GetUserInfoCatch(FirestoreFailure)) EXCEPT
                         !.dir_reads = @ + 1, !.infra = TRUE]
         ELSE IF ~client_doc.exists
         THEN req' = [Rejected(req, GetUserInfoCatch(CompanyNotFoundError)) EXCEPT
                         !.dir_reads = @ + 1]
         ELSE IF Falsy(client_doc.gcpProjectId)
         THEN req' = [Rejected(req, GetUserInfoCatch(
                         AuthorizationError("Company does not have an associated GCP project")))
                      EXCEPT !.dir_reads = @ + 1, !.client_data = client_doc]
         ELSE req' = [req EXCEPT !.pc = "store", !.client_data = client_doc,
                         !.dir_reads = @ + 1,
                         !.user_info = TenantInfo(req.claims.uid, req.claims.email,
                                                  req.user_data, client_doc)]
    /\ UNCHANGED <<clock, settings, user_cache, users, clients, watched, hist>>

\* The subjects whose unexpired entry the insertion of key evicts
Evicted(cache, uid, now) ==
    { u \in Uids \ {uid} :
        /\ CacheContains(cache, CacheKey(u), now)
        /\ CacheIndex(CacheSet(cache, CacheKey(uid), NoUser, now), CacheKey(u)) = 0 }

\* Cache the result: user_cache[cache_key] = user_info; return user_info
CacheStore ==
    /\ req.pc = "store"
    /\ LET uid == req.claims.uid IN
         /\ user_cache' = CacheSet(user_cache, CacheKey(uid), req.user_info, clock)
         /\ hist' = IF uid = watched
                    THEN [stored |-> TRUE, value |-> req.user_info, at |-> clock,
                          inval |-> FALSE, evicted |-> FALSE,
                          cleared |-> hist.cleared]
                    ELSE IF watched \in Evicted(user_cache, uid, clock)
                    THEN [hist EXCEPT !.evicted = TRUE]
                    ELSE hist
         /\ req' = [req EXCEPT !.pc = "resolved", !.returned_at = clock]
    /\ UNCHANGED <<clock, settings, users, clients, watched>>

\* A gateway that forwards as soon as the token is verified
AttachAndForward_Early ==
    /\ req.pc \in {"resolved", "cache_check"}
    /\ req' = [req EXCEPT !.pc = "handler", !.state_user = req.user_info,
                          !.outcome = "forwarded"]
    /\ UNCHANGED <<clock, settings, user_cache, users, clients, watched, hist>>

\* request.state.user = user_info; return await call_next(request)
AttachAndForward ==
    /\ req.pc = "resolved"
    /\ req' = [req EXCEPT !.pc = "handler", !.state_user = req.user_info,
                          !.outcome = "forwarded"]
    /\ UNCHANGED <<clock, settings, user_cache, users, clients, watched, hist>>

\* The route handler runs
Handler ==
    /\ req.pc = "handler"
    /\ req' = [req EXCEPT !.pc = "done", !.handled = TRUE]
    /\ UNCHANGED <<clock, settings, user_cache, users, clients, watched, hist>>

\* The response (or the exception) has left the middleware
Finish ==
    /\ req.pc = "done"
    /\ req' = IdleReq
    /\ UNCHANGED <<clock, settings, user_cache, users, clients, watched, hist>>

---------------------------------------------------------------------------
(* Cache utilities.  dispatch runs to call_next without yielding to the    *)
(* event loop, so the utilities run between the gateway phases of requests.*)

\* An invalidation that leaves the entry in place
ClearUserCache_KeepsEntry ==
    /\ req.pc = "idle"
    /\ \E uid \in Uids :
         /\ user_cache' = user_cache
         /\ hist' = IF uid = watched THEN Invalidated(hist) ELSE hist
    /\ UNCHANGED <<clock, settings, users, clients, req, watched>>

\* clear_user_cache(uid)
ClearUserCache ==
    /\ req.pc = "idle"
    /\ \E uid \in Uids :
         /\ user_cache' = IF CacheContains(user_cache, CacheKey(uid), clock)
                          THEN CacheRemove(user_cache, CacheKey(uid))
                          ELSE user_cache
         /\ hist' = IF uid = watched THEN Invalidated(hist) ELSE hist
    /\ UNCHANGED <<clock, settings, users, clients, req, watched>>

\* clear_all_cache()
ClearAllCache ==
    /\ req.pc = "idle"
    /\ user_cache' = <<>>
    /\ hist' = Invalidated(hist)
    /\ UNCHANGED <<clock, settings, users, clients, req, watched>>

---------------------------------------------------------------------------

Next ==
    \/ Tick
    \/ WriteUser
    \/ WriteClient
    \/ PublicBypass
    \/ ExtractToken
    \/ ValidateToken
    \/ CheckExpiry
    \/ CacheCheck
    \/ CacheRead
    \/ SuperAdminPolicy
    \/ ReadUser
    \/ ReadClient
    \/ CacheStore
    \/ AttachAndForward
    \/ Handler
    \/ Finish
    \/ ClearUserCache
    \/ ClearAllCache

Spec == Init /\ [][Next]_vars

---------------------------------------------------------------------------
(* get_user_info(uid, email) called on an empty cache, for every email,
   configuration and directory content of the sets below *)

\* Emails, as the list email.split("@"): one part means no "@"
Emails ==
    { NoEmail, <<"">>, <<"noat">>, <<"be-luma.com">>,
      <<"a", "tenant.co">>, <<"ops", "be-luma.com">>, <<"ops", "BE-LUMA.COM">>,
      <<"ops", "sub.be-luma.com">>, <<"ops", "be-luma.co">>, <<"ops", "">>,
      <<"ops", "be-luma.com", "evil.com">>, <<"x", "evil.com", "be-luma.com">>,
      <<"root", "admin.io">> }

\* Contents of the document users/{uid}
ResolveUserDocs ==
    UserDocs \cup { UserDoc("", MissingList), UserDoc("t1", <<>>),
                    UserDoc("t1", <<"read", "write">>),
                    UserDoc("super-admin", MissingList) }

InitResolve ==
    /\ clock = 0
    /\ user_cache = <<>>
    /\ watched = "u1"
    /\ hist = NoHist
    /\ settings \in [accessible_projects : AccessibleProjectsChoices,
                     super_admin_domains : AdminDomainsChoices]
    /\ \E d \in ResolveUserDocs :
         users = [u \in Uids |-> IF u = "u1" THEN d
                                 ELSE UserDoc("t2", MissingList)]
    /\ \E c1 \in ClientDocs, cs \in {NoDoc, ClientDoc("proj-42")} :
         clients = [c \in Companies |->
                      CASE c = "t1" -> c1
                        [] c = "t2" -> ClientDoc("proj-99")
                        [] OTHER    -> cs]
    /\ \E email \in Emails, email_verified \in BOOLEAN :
         req = [IdleReq EXCEPT !.pc = "cache_check",
                  !.claims = Claims("u1", email, email_verified, 3 * TTL)]

NextResolve ==
    \/ CacheCheck
    \/ SuperAdminPolicy
    \/ ReadUser
    \/ ReadClient
    \/ CacheStore

SpecResolve == InitResolve /\ [][NextResolve]_vars

---------------------------------------------------------------------------
(* Other requests and invalidations that run while a request is between two
   steps of get_user_info.  Each is a whole call: get_user_info contains no
   await, so the event loop runs another coroutine's call from its first line
   to its return. *)

InFlight == req.pc \notin {"idle", "handler", "done"}

\* The tokens whose claims another request may present
OtherTokens == { <<"A">>, <<"S">>, <<"B">> }

\* What get_user_info(uid, email) returns on a cache miss when no lookup
\* fails unexpectedly, NoUser when it raises
Resolve(uid, email) ==
    IF IsSuperAdmin(email) THEN SuperAdminInfo(uid, email)
    ELSE IF ~users[uid].exists \/ Falsy(users[uid].company_id) THEN NoUser
    ELSE IF ~clients[users[uid].company_id].exists THEN NoUser
    ELSE IF Falsy(clients[users[uid].company_id].gcpProjectId) THEN NoUser
    ELSE TenantInfo(uid, email, users[uid], clients[users[uid].company_id])

\* Another request's call of get_user_info, from the cache test to the return
ConcurrentResolution ==
    /\ InFlight
    /\ \E token \in OtherTokens, ok \in BOOLEAN :
         LET uid   == TokenClaims(token).uid
             email == TokenClaims(token).email
             info  == IF ok THEN Resolve(uid, email) ELSE NoUser
             h     == IF uid = watched THEN [hist EXCEPT !.cleared = FALSE]
                      ELSE hist
         IN  IF CacheContains(user_cache, CacheKey(uid), clock) \/ info = NoUser
             THEN UNCHANGED <<user_cache, hist>>
             ELSE /\ user_cache' = CacheSet(user_cache, CacheKey(uid), info, clock)
                  /\ hist' = IF uid = watched
                             THEN [stored |-> TRUE, value |-> info, at |-> clock,
                                   inval |-> FALSE, evicted |-> FALSE,
                                   cleared |-> h.cleared]
                             ELSE IF watched \in Evicted(user_cache, uid, clock)
                             THEN [h EXCEPT !.evicted = TRUE]
                             ELSE h
    /\ UNCHANGED <<clock, settings, users, clients, req, watched>>

\* clear_user_cache(uid), called while a request is in get_user_info
ConcurrentClearUser ==
    /\ InFlight
    /\ \E uid \in Uids :
         /\ user_cache' = IF CacheContains(user_cache, CacheKey(uid), clock)
                          THEN CacheRemove(user_cache, CacheKey(uid))
                          ELSE user_cache
         /\ hist' = IF uid = watched THEN Invalidated(hist) ELSE hist
    /\ UNCHANGED <<clock, settings, users, clients, req, watched>>

\* clear_all_cache(), called while a request is in get_user_info
ConcurrentClearAll ==
    /\ InFlight
    /\ user_cache' = <<>>
    /\ hist' = IF watched \in Uids THEN Invalidated(hist) ELSE hist
    /\ UNCHANGED <<clock, settings, users, clients, req, watched>>

\* The directory of Init; no subject's history is recorded
InitConcurrent ==
    /\ clock = 0
    /\ settings \in [accessible_projects : AccessibleProjectsChoices,
                     super_admin_domains : {super_admin_domains}]
    /\ user_cache = <<>>
    /\ users = [u \in Uids |-> IF u = "u1" THEN UserDoc("t1", MissingList)
                                ELSE UserDoc("t2", MissingList)]
    /\ clients = [c \in Companies |->
                    CASE c = "t1" -> ClientDoc("proj-42")
                      [] c = "t2" -> ClientDoc("proj-99")
                      [] OTHER    -> NoDoc]
    /\ req = IdleReq
    /\ watched = None
    /\ hist = NoHist

NextConcurrent ==
    \/ Tick
    \/ WriteUser
    \/ ExtractToken
    \/ ValidateToken
    \/ CheckExpiry
    \/ CacheCheck
    \/ CacheRead
    \/ SuperAdminPolicy
    \/ ReadUser
    \/ ReadClient
    \/ CacheStore
    \/ AttachAndForward
    \/ Handler
    \/ Finish
    \/ ConcurrentResolution
    \/ ConcurrentClearUser
    \/ ConcurrentClearAll

SpecConcurrent == InitConcurrent /\ [][NextConcurrent]_vars

---------------------------------------------------------------------------
(* External calls that never answer.  verify_id_token and the two Firestore
   get() calls are made without a timeout argument and are not wrapped in
   any wait: a call that the dependency never answers does not return. *)

\* The positions of dispatch at which an external call is made
ExternalCalls == {"verify", "read_user", "read_client"}

\* The dependency accepts the call and never answers
Stall ==
    /\ req.pc \in ExternalCalls
    /\ req' = [req EXCEPT !.pc = "stalled"]
    /\ UNCHANGED <<clock, settings, user_cache, users, clients, watched, hist>>

\* The steps the gateway takes by itself once a request has arrived
GatewayStep ==
    \/ ValidateToken
    \/ CheckExpiry
    \/ CacheCheck
    \/ CacheRead
    \/ SuperAdminPolicy
    \/ ReadUser
    \/ ReadClient
    \/ CacheStore
    \/ AttachAndForward
    \/ Handler

NextStall ==
    \/ Tick
    \/ PublicBypass
    \/ ExtractToken
    \/ GatewayStep
    \/ Finish
    \/ Stall

\* The event loop runs every coroutine that can take a step
SpecStall == InitConcurrent /\ [][NextStall]_vars /\ WF_vars(GatewayStep)

---------------------------------------------------------------------------
(* The route dependencies, evaluated on a request that reached its route *)

GuardProjects == {"proj-42", "proj-99", "proj-a", "proj-z", gcp_project_id}

GuardPermissions ==
    { MissingList, <<>>, <<"write">>, <<"read", "write">>, <<"READ">> }

\* The permission names a route may require
GuardPermissionNames == {"read", "write", "admin", "delete"}

\* The routes of the BigQuery router that call the warehouse
Routes == {"execute_query", "list_datasets", "list_tables",
           "get_table_schema", "preview_table_data"}

\* The project_id a request may carry: none, empty, or a project name
RouteProjectParams == {None, ""} \cup GuardProjects

\* An accessor that gives a request without identity a guest identity
get_current_user_Anonymous(r) ==
    IF r.state_user = NoUser
    THEN [user |-> UserInfo("anonymous", NoEmail, FALSE, None, gcp_project_id,
                            "Unknown Company", FALSE, <<>>, <<>>),
          exc |-> NoExc]
    ELSE [user |-> r.state_user, exc |-> NoExc]

\* get_current_user: request.state.user, or "User not authenticated"
get_current_user(r) ==
    IF r.state_user = NoUser
    THEN [user |-> NoUser, exc |-> AuthenticationError("User not authenticated")]
    ELSE [user |-> r.state_user, exc |-> NoExc]

\* require_project_access(project_id), as a dependency of a route
RequireProjectAccess ==
    /\ req.pc = "guard"
    /\ \E project_id \in GuardProjects :
         LET cur == get_current_user(req) IN
         req' = [req EXCEPT !.pc = "guarded",
                   !.guard =
                     [ kind |-> "project", arg |-> project_id,
                       user |-> IF cur.exc # NoExc THEN NoUser
                                ELSE IF can_access_project(cur.user, project_id)
                                THEN cur.user ELSE NoUser,
                       exc  |-> IF cur.exc # NoExc THEN cur.exc
                                ELSE IF can_access_project(cur.user, project_id)
                                THEN NoExc
                                ELSE ProjectAccessDeniedError(project_id) ]]
    /\ UNCHANGED <<clock, settings, user_cache, users, clients, watched, hist>>

\* require_permission(permission), as a dependency of a route
RequirePermission ==
    /\ req.pc = "guard"
    /\ \E permission \in GuardPermissionNames :
         LET cur == get_current_user(req) IN
         req' = [req EXCEPT !.pc = "guarded",
                   !.guard =
                     [ kind |-> "permission", arg |-> permission,
                       user |-> IF cur.exc # NoExc THEN NoUser
                                ELSE IF has_permission(cur.user, permission)
                                THEN cur.user ELSE NoUser,
                       exc  |-> IF cur.exc # NoExc THEN cur.exc
                                ELSE IF has_permission(cur.user, permission)
                                THEN NoExc
                                ELSE PermissionRequired(permission) ]]
    /\ UNCHANGED <<clock, settings, user_cache, users, clients, watched, hist>>

\* get_current_user, as a dependency of a route
GetCurrentUser ==
    /\ req.pc = "guard"
    /\ LET cur == get_current_user(req) IN
         req' = [req EXCEPT !.pc = "guarded",
                   !.guard = [ kind |-> "user", arg |-> None,
                               user |-> cur.user, exc |-> cur.exc ]]
    /\ UNCHANGED <<clock, settings, user_cache, users, clients, watched, hist>>

\* get_current_super_admin, as a dependency of a route
GetCurrentSuperAdmin ==
    /\ req.pc = "guard"
    /\ LET cur == get_current_user(req) IN
         req' = [req EXCEPT !.pc = "guarded",
                   !.guard =
                     [ kind |-> "super_admin", arg |-> None,
                       user |-> IF cur.exc # NoExc THEN NoUser
                                ELSE IF cur.user.is_super_admin
                                THEN cur.user ELSE NoUser,
                       exc  |-> IF cur.exc # NoExc THEN cur.exc
                                ELSE IF cur.user.is_super_admin THEN NoExc
                                ELSE AuthorizationError("Super admin access required") ]]
    /\ UNCHANGED <<clock, settings, user_cache, users, clients, watched, hist>>

\* target_project = project_id or user.gcp_project_id
TargetProject(user, project_id) ==
    IF Falsy(project_id) THEN user.gcp_project_id ELSE project_id

\* A handler that checks the identity's own project, not the target
RouteCheck_OwnProject(user, project_id) ==
    can_access_project(user, user.gcp_project_id)

\* if not user.can_access_project(target_project): raise ...
RouteCheck(user, project_id) ==
    can_access_project(user, TargetProject(user, project_id))

\* A route of the BigQuery router: FastAPI calls the handler only when its
\* dependency require_permission("read") returned; the handler checks the
\* target project and then calls the warehouse with project=target_project.
\* preview_table_data makes the check and then calls execute_query, which
\* makes it again for the same project.
RouteHandler ==
    /\ req.pc = "guarded"
    /\ req.guard.kind = "permission"
    /\ req.guard.arg = "read"
    /\ \E name \in Routes, project_id \in RouteProjectParams :
         req' = [req EXCEPT !.pc = "responded",
                   !.route =
                     IF req.guard.exc # NoExc
                     THEN [ name |-> name, project_id |-> project_id,
                            ran |-> FALSE, exc |-> req.guard.exc,
                            warehouse |-> None ]
                     ELSE LET user   == req.guard.user
                              target == TargetProject(user, project_id)
                          IN  IF ~RouteCheck(user, project_id)
                              THEN [ name |-> name, project_id |-> project_id,
                                     ran |-> TRUE,
                                     exc |-> ProjectAccessDeniedError(target),
                                     warehouse |-> None ]
                              ELSE [ name |-> name, project_id |-> project_id,
                                     ran |-> TRUE, exc |-> NoExc,
                                     warehouse |-> target ]]
    /\ UNCHANGED <<clock, settings, user_cache, users, clients, watched, hist>>

InitGuard ==
    /\ clock = 0
    /\ user_cache = <<>>
    /\ watched = "u1"
    /\ hist = NoHist
    /\ settings \in [accessible_projects : AccessibleProjectsChoices,
                     super_admin_domains : {super_admin_domains}]
    /\ users = [u \in Uids |-> UserDoc("t1", MissingList)]
    /\ clients = [c \in Companies |-> ClientDoc("proj-42")]
    /\ \E user \in {NoUser, SuperAdminInfo("u1", <<"ops", "be-luma.com">>)}
                   \cup { TenantInfo("u1", <<"a", "tenant.co">>,
                                     UserDoc("t1", p), ClientDoc(g)) :
                            p \in GuardPermissions,
                            g \in {"proj-42", "proj-99", "proj-a"} } :
         req = [IdleReq EXCEPT !.pc = "guard", !.path = ApiQueryPath,
                               !.state_user = user,
                               !.outcome = "forwarded"]

NextGuard ==
    \/ GetCurrentUser
    \/ GetCurrentSuperAdmin
    \/ RequirePermission
    \/ RequireProjectAccess
    \/ RouteHandler

SpecGuard == InitGuard /\ [][NextGuard]_vars

---------------------------------------------------------------------------
(* Properties *)

\* The prefix under which main.py mounts the BigQuery router
ApiPrefix == SubSeq(ApiQueryPath, 1, 13)

Tokens == { <<"A">>, <<"S">>, <<"B">>, <<"X">> }

HasBearerToken(h) == \E t \in Tokens : h = BearerPrefix \o t

AdminEmail == <<"ops", "be-luma.com">>

\* The directory holds a user document linked to a tenant that has a project
ValidTenantLink(uid) ==
    /\ users[uid].exists
    /\ users[uid].company_id \in Companies
    /\ clients[users[uid].company_id].exists
    /\ ~Falsy(clients[users[uid].company_id].gcpProjectId)

\* C1: a request to a route of the BigQuery API is forwarded to its handler
\* only after token extraction, verification and identity resolution.
C1_ApiRequestsAuthenticated ==
    (req.outcome = "forwarded" /\ StartsWith(req.path, ApiPrefix))
        => (req.extracted /\ req.verified = 1 /\ req.state_user # NoUser)

\* C2: a request to the protected route /api/bigquery/query that carries a
\* valid, non-expired token of a known user with a valid tenant link ends
\* forwarded with that user's identity attached to the request.
C2_ValidRequestGetsIdentity ==
    ( /\ req.pc = "done"
      /\ req.path = ApiQueryPath
      /\ req.header = BearerPrefix \o <<"A">>
      /\ clock < TokenClaims(<<"A">>).exp
      /\ ValidTenantLink("u1") )
        => ( /\ req.outcome = "forwarded"
             /\ req.state_user # NoUser
             /\ req.state_user.uid = "u1" )

\* C3: a request the gateway does not bypass whose Authorization header is
\* absent, lacks the "Bearer " prefix or has an empty token is rejected
\* with MissingToken, and the verifier is not called for it.
C3_MissingTokenRejected ==
    (req.pc # "idle" /\ ~IsPublicPath(req.path) /\ ~HasBearerToken(req.header))
        => ( /\ req.pc = "done"
             /\ req.outcome = "rejected"
             /\ req.exc = MissingTokenError
             /\ req.verified = 0 )

C3_Witness ==
    /\ req.pc = "done"
    /\ req.path = EmptyPath
    /\ req.header = BearerPrefix
    /\ req.exc = MissingTokenError

C5_ExpiredTokenRejected ==
    [][ (req.pc = "expiry" /\ req'.pc # "expiry" /\ req.claims.exp <= clock)
          => ( /\ req'.pc = "done"
               /\ req'.outcome = "rejected"
               /\ req'.exc = InvalidTokenError
               /\ req'.cache_looks = 0
               /\ req'.dir_reads = 0 ) ]_vars

C5_Witness ==
    /\ req.pc = "done"
    /\ req.claims # NoClaims
    /\ req.claims.exp = clock
    /\ req.exc = InvalidTokenError
    /\ req.cache_looks = 0

\* C6: a resolution for an email of a super-admin domain, in any state of
\* the cache, reads no directory document and returns a super-admin identity.
C6_AdminEmailIsSuperAdmin ==
    (req.pc = "resolved" /\ req.claims.email = AdminEmail)
        => (req.dir_reads = 0 /\ req.user_info.is_super_admin)

\* C7 as claimed: a resolution inside the TTL window of the last store for
\* the same subject, with no invalidation in between, returns the stored
\* identity without evaluating the super-admin policy or reading the
\* directory.
C7_SecondResolutionCached ==
    ( /\ req.pc = "resolved"
      /\ req.prior.stored
      /\ ~req.prior.inval
      /\ req.returned_at < req.prior.at + TTL )
        => ( /\ req.user_info = req.prior.value
             /\ req.dir_reads = 0
             /\ ~req.policy )

\* C7 amended: the same, provided the entry was not evicted for capacity
\* in between.
C7_SecondResolutionCachedUnlessEvicted ==
    ( /\ req.pc = "resolved"
      /\ req.prior.stored
      /\ ~req.prior.inval
      /\ ~req.prior.evicted
      /\ req.returned_at < req.prior.at + TTL )
        => ( /\ req.user_info = req.prior.value
             /\ req.dir_reads = 0
             /\ ~req.policy )

C7_Witness ==
    /\ req.pc = "resolved"
    /\ req.prior.stored
    /\ ~req.prior.inval
    /\ ~req.prior.evicted
    /\ req.prior.at < req.returned_at
    /\ req.returned_at < req.prior.at + TTL
    /\ req.from_cache

\* C8 as claimed: the resolution that follows an invalidation of its subject
\* reads the directory.
C8_InvalidateForcesDirectoryRead ==
    (req.pc = "resolved" /\ req.prior.cleared) => req.dir_reads > 0

\* C8 amended: the resolution that follows an invalidation of its subject
\* does not use the cache; it evaluates the super-admin policy and, unless
\* the email is of a super-admin domain, reads the user and the client
\* documents and returns the identity built from what it read.
C8_InvalidateForcesResolve ==
    (req.pc = "resolved" /\ req.prior.cleared)
        => ( /\ ~req.from_cache
             /\ req.policy
             /\ IF IsSuperAdmin(req.claims.email)
                THEN req.dir_reads = 0 /\ req.user_info.is_super_admin
                ELSE /\ req.dir_reads = 2
                     /\ ~req.user_info.is_super_admin
                     /\ req.user_info.company_id = req.user_data.company_id
                     /\ req.user_info.gcp_project_id = req.client_data.gcpProjectId )

C8_Witness ==
    /\ req.pc = "resolved"
    /\ req.prior.cleared
    /\ req.prior.stored
    /\ req.returned_at < req.prior.at + TTL
    /\ req.dir_reads = 2
    /\ req.user_info # req.prior.value

\* C9: a resolution that fails leaves the cache as it was, with no live
\* entry for its subject, so the next resolution of the subject goes to the
\* resolver again at once.
C9_FailureLeavesCache ==
    [][ ( /\ req.pc \in {"cache_read", "policy", "read_user", "read_client", "store"}
          /\ req'.outcome = "rejected" )
          => ( /\ user_cache' = user_cache
               /\ ~CacheContains(user_cache', CacheKey(req.claims.uid), clock') ) ]_vars

C9_Witness ==
    /\ req.outcome = "rejected"
    /\ req.exc = UserNotFoundError
    /\ user_cache # <<>>

\* C10: an identity is returned from the cache only before the instant its
\* entry was stored plus TTL; a resolution that does not return from the
\* cache leaves its result stored under its subject, live for TTL.
C10_HitOnlyWithinTTL ==
    req.pc = "resolved"
        => IF req.from_cache
           THEN (req.claims.uid = watched)
                  => ( /\ req.prior.stored
                       /\ req.user_info = req.prior.value
                       /\ req.returned_at < req.prior.at + TTL )
           ELSE LET i == CacheIndex(user_cache, CacheKey(req.claims.uid)) IN
                /\ i # 0
                /\ user_cache[i].value = req.user_info
                /\ user_cache[i].expires = req.returned_at + TTL

C10_Witness ==
    /\ req.pc = "resolved"
    /\ ~req.from_cache
    /\ req.claims.uid = watched
    /\ req.stale
    /\ req.returned_at = TTL
    /\ CacheContains(user_cache, CacheKey(watched), clock)

---------------------------------------------------------------------------
\* The error kinds of directory resolution, as the exceptions of the source
TenantLinkMissing == AuthorizationError("User not associated with any company")

TenantMisconfigured ==
    AuthorizationError("Company does not have an associated GCP project")

DirectoryUnavailable == AuthenticationError("Failed to get user information")

\* C11: when no lookup fails unexpectedly, directory resolution fails at the
\* first check that does not hold, in this order: user record absent gives
\* UserNotFoundError; no company_id gives the 403 error "User not associated
\* with any company"; client record absent gives CompanyNotFoundError; no
\* gcpProjectId gives "Company does not have an associated GCP project".
\* The client record is not read (one read only) in the first two cases.
C11_DirectoryChecksInOrder ==
    (req.outcome = "rejected" /\ req.policy /\ ~req.infra) =>
        LET user_doc == users[req.claims.uid] IN
        IF ~user_doc.exists
        THEN req.exc = UserNotFoundError /\ req.dir_reads = 1
        ELSE IF Falsy(user_doc.company_id)
        THEN /\ req.exc = TenantLinkMissing
             /\ req.exc.base = "AuthorizationError"
             /\ req.exc.status_code = 403
             /\ req.dir_reads = 1
        ELSE IF ~clients[user_doc.company_id].exists
        THEN req.exc = CompanyNotFoundError /\ req.dir_reads = 2
        ELSE /\ Falsy(clients[user_doc.company_id].gcpProjectId)
             /\ req.exc = TenantMisconfigured
             /\ req.dir_reads = 2

\* An unlinked user is refused after one read, while client records exist
C11_Witness ==
    /\ req.outcome = "rejected"
    /\ ~req.infra
    /\ users[req.claims.uid].exists
    /\ req.exc = TenantLinkMissing
    /\ req.dir_reads = 1
    /\ clients["t1"].exists

C13_LookupFailureIsItsOwnKind ==
    (req.outcome = "rejected" /\ req.policy) =>
        /\ req.infra <=> req.exc = DirectoryUnavailable
        /\ req.infra =>
              /\ req.exc.cls = "AuthenticationError"
              /\ req.exc.code = "AUTH_ERROR"
              /\ req.exc \notin {UserNotFoundError, CompanyNotFoundError,
                                 TenantLinkMissing, TenantMisconfigured}
        /\ ~req.infra =>
              req.exc \in {UserNotFoundError, CompanyNotFoundError,
                           TenantLinkMissing, TenantMisconfigured}

\* The read of the client record fails unexpectedly although the record of
\* the user's company is absent
C13_Witness ==
    /\ req.outcome = "rejected"
    /\ req.infra
    /\ req.dir_reads = 2
    /\ ~clients[req.user_data.company_id].exists
    /\ req.exc = DirectoryUnavailable

\* The errors the gateway raises when the identity provider, the directory
\* or the gateway itself fails unexpectedly
VerifierUnavailable == AuthenticationError("Token validation failed")

GatewayUnavailable == AuthenticationError("Authentication service unavailable")

ServiceUnavailableErrors ==
    {VerifierUnavailable, DirectoryUnavailable, GatewayUnavailable}

\* status_code of the JSON response the exception handlers build
ResponseStatus(e) == e.status_code

\* C14: a rejected request is answered 401 for a missing or invalid token,
\* 403 for a denied permission or project, and with a 5xx status (503) when
\* the authentication service is unavailable, hence never with the status of
\* an invalid token or of an unknown user.
C14_UnavailableIsServerError ==
    /\ \A p \in GuardProjects : ResponseStatus(ProjectAccessDeniedError(p)) = 403
    /\ ResponseStatus(AuthorizationError("Permission required: read")) = 403
    /\ req.outcome = "rejected" =>
          /\ req.exc \in {MissingTokenError, InvalidTokenError} =>
                ResponseStatus(req.exc) = 401
          /\ req.exc \in ServiceUnavailableErrors =>
                /\ ResponseStatus(req.exc) = 503
                /\ ResponseStatus(req.exc) # ResponseStatus(InvalidTokenError)
                /\ ResponseStatus(req.exc) # ResponseStatus(UserNotFoundError)

SuperAdminCompany == "super-admin"

\* C17: the identity get_user_info builds for a super admin has company_id
\* "super-admin", accessible_projects equal to settings.accessible_projects
\* or, when that list is empty, to [settings.gcp_project_id], the permissions
\* read, write and admin, and email_verified TRUE whatever the token claims.
C17_SuperAdminIdentity ==
    (req.pc \in {"store", "resolved"} /\ req.dir_reads = 0) =>
        /\ req.user_info.is_super_admin
        /\ req.user_info.uid = req.claims.uid
        /\ req.user_info.email = req.claims.email
        /\ req.user_info.company_id = SuperAdminCompany
        /\ req.user_info.accessible_projects =
              IF Len(settings.accessible_projects) = 0
              THEN <<gcp_project_id>>
              ELSE settings.accessible_projects
        /\ req.user_info.permissions = <<"read", "write", "admin">>
        /\ req.user_info.email_verified = TRUE

\* A super admin whose token says the email is not verified, in a
\* deployment that configures no project list
C17_Witness ==
    /\ req.pc = "resolved"
    /\ req.user_info.is_super_admin
    /\ ~req.claims.email_verified
    /\ settings.accessible_projects = <<>>
    /\ req.user_info.accessible_projects = <<gcp_project_id>>
    /\ req.user_info.email_verified

IdentitiesInState ==
    ({req.user_info, req.state_user}
        \cup {user_cache[i].value : i \in 1..Len(user_cache)}) \ {NoUser}

\* C19: every identity that is constructed, cached or attached to a request
\* has a non-empty accessible_projects list.
C19_AccessibleProjectsNonEmpty ==
    \A user \in IdentitiesInState : Len(user.accessible_projects) >= 1

\* A super admin of a deployment without a configured project list is
\* attached to the request and cached
C19_Witness ==
    /\ req.state_user # NoUser
    /\ req.state_user.is_super_admin
    /\ settings.accessible_projects = <<>>
    /\ req.state_user \in {user_cache[i].value : i \in 1..Len(user_cache)}
    /\ req.state_user.accessible_projects = <<gcp_project_id>>

\* C20: require_project_access(project_id) returns the attached identity
\* exactly when it is a super admin or project_id is in its
\* accessible_projects, and otherwise raises ProjectAccessDeniedError for
\* that project; a super admin passes for every project, also for one that
\* is not in its list.
C20_ProjectGuard ==
    (req.pc = "guarded" /\ req.guard.kind = "project"
                        /\ req.state_user # NoUser) =>
        LET user    == req.state_user
            project == req.guard.arg
            allowed == \/ user.is_super_admin
                       \/ \E i \in DOMAIN user.accessible_projects :
                            user.accessible_projects[i] = project
        IN  /\ allowed => req.guard.exc = NoExc /\ req.guard.user = user
            /\ ~allowed =>
                  /\ req.guard.exc = ProjectAccessDeniedError(project)
                  /\ req.guard.exc.status_code = 403
                  /\ req.guard.user = NoUser

\* A super admin passes for a project outside its accessible_projects
C20_Witness ==
    /\ req.pc = "guarded"
    /\ req.state_user # NoUser
    /\ req.state_user.is_super_admin
    /\ req.guard.arg = "proj-z"
    /\ ~InList("proj-z", req.state_user.accessible_projects)
    /\ req.guard.exc = NoExc
    /\ req.guard.user = req.state_user

\* C21: the dependency built by require_permission(p) returns the attached
\* identity exactly when it is a super admin or p is, as the same string, an
\* element of its permissions, and otherwise raises the 403 error
\* "Permission required: p".
C21_PermissionGuard ==
    (req.pc = "guarded" /\ req.guard.kind = "permission"
                        /\ req.state_user # NoUser) =>
        LET user    == req.state_user
            p       == req.guard.arg
            allowed == \/ user.is_super_admin
                       \/ \E i \in DOMAIN user.permissions :
                            user.permissions[i] = p
        IN  /\ allowed => req.guard.exc = NoExc /\ req.guard.user = user
            /\ ~allowed =>
                  /\ req.guard.exc = PermissionRequired(p)
                  /\ req.guard.exc.status_code = 403
                  /\ req.guard.user = NoUser

\* An identity whose only permission is spelled "READ" is refused "read"
C21_Witness ==
    /\ req.pc = "guarded"
    /\ req.state_user # NoUser
    /\ req.state_user.permissions = <<"READ">>
    /\ req.guard.kind = "permission"
    /\ req.guard.arg = "read"
    /\ req.guard.exc = PermissionRequired("read")

\* The error of get_current_user for a request without identity
Unauthenticated == AuthenticationError("User not authenticated")

\* C22: for a request that carries no identity, get_current_user,
\* get_current_super_admin, require_permission and require_project_access
\* all raise the 401 error "User not authenticated", and the handler of a
\* route that depends on one of them does not run.
C22_NoIdentityNoHandler ==
    (req.pc \in {"guarded", "responded"} /\ req.state_user = NoUser) =>
        /\ req.guard.kind \in {"user", "super_admin", "permission", "project"}
        /\ req.guard.exc = Unauthenticated
        /\ req.guard.exc.status_code = 401
        /\ req.guard.user = NoUser
        /\ req.pc = "responded" =>
              /\ ~req.route.ran
              /\ req.route.warehouse = None
              /\ req.route.exc = Unauthenticated

\* A request without identity was routed to execute_query, whose
\* dependency refused it
C22_Witness ==
    /\ req.pc = "responded"
    /\ req.state_user = NoUser
    /\ req.path = ApiQueryPath
    /\ req.route.name = "execute_query"
    /\ ~req.route.ran
    /\ req.route.exc = Unauthenticated

\* C26: a route handler calls the warehouse only for the project P that
\* the request names or, when it names none, the identity's gcp_project_id,
\* and only when can_access_project(P) holds for the attached identity;
\* when it does not hold, the handler raises ProjectAccessDeniedError(P)
\* and makes no warehouse call.
C26_WarehouseTargetIsAccessible ==
    (req.pc = "responded" /\ req.route.ran) =>
        LET user    == req.state_user
            P       == IF req.route.project_id \in {None, ""}
                       THEN user.gcp_project_id
                       ELSE req.route.project_id
            allowed == \/ user.is_super_admin
                       \/ \E i \in DOMAIN user.accessible_projects :
                            user.accessible_projects[i] = P
        IN  /\ user # NoUser
            /\ allowed => req.route.exc = NoExc /\ req.route.warehouse = P
            /\ ~allowed =>
                  /\ req.route.exc = ProjectAccessDeniedError(P)
                  /\ req.route.warehouse = None

\* A tenant identity that asks to preview a table of another project is
\* refused without a warehouse call
C26_Witness ==
    /\ req.pc = "responded"
    /\ req.route.ran
    /\ req.route.name = "preview_table_data"
    /\ ~req.state_user.is_super_admin
    /\ req.state_user.gcp_project_id = "proj-42"
    /\ req.route.project_id = "proj-99"
    /\ req.route.exc = ProjectAccessDeniedError("proj-99")
    /\ req.route.warehouse = None

\* C27: every identity that is constructed or cached has a non-empty
\* permissions list; a user record without a permissions field, or with
\* an empty one, is resolved to the permissions ["read"] and so passes the
\* check for the permission "read".
C27_PermissionsNonEmpty ==
    /\ \A user \in IdentitiesInState : Len(user.permissions) >= 1
    /\ (req.pc \in {"store", "resolved"} /\ req.dir_reads = 2
            /\ users[req.claims.uid].permissions \in {MissingList, <<>>}) =>
          /\ req.user_info.permissions = <<"read">>
          /\ \E i \in DOMAIN req.user_info.permissions :
                req.user_info.permissions[i] = "read"

\* A user record with an empty permissions list has been resolved
C27_Witness ==
    /\ req.pc = "resolved"
    /\ req.dir_reads = 2
    /\ users[req.claims.uid].permissions = <<>>
    /\ req.user_info.permissions = <<"read">>
    /\ has_permission(req.user_info, "read")

\* C28: a request that found its subject's entry by the membership test
\* and reads it on the next line is not rejected because the entry's time
\* to live ran out in between (the entry is still in the structure, nothing
\* invalidated it): it obtains an identity.
C28_ExpiryNeverRejects ==
    (req.cache_looks = 2
        /\ CacheIndex(user_cache, CacheKey(req.claims.uid)) # 0) =>
            /\ req.outcome # "rejected"
            /\ req.user_info # NoUser

\* What the position of a request in dispatch implies about the steps it
\* has taken
StepsInOrder ==
    /\ (req.pc = "verify" \/ req.verified > 0) =>
          req.extracted /\ req.token # <<>>
    /\ (\/ req.pc \in {"expiry", "cache_check", "cache_read", "policy",
                        "read_user", "read_client", "store", "resolved"}
        \/ req.cache_looks > 0 \/ req.policy \/ req.dir_reads > 0) =>
          /\ req.verified = 1
          /\ req.provider = "ok"
          /\ req.claims = TokenClaims(req.token)
    /\ req.state_user # NoUser =>
          /\ req.user_info # NoUser
          /\ req.state_user = req.user_info
          /\ req.from_cache \/ req.policy
          /\ req.outcome = "forwarded"
    /\ (req.outcome = "forwarded" /\ ~IsPublicPath(req.path)) =>
          req.state_user # NoUser
    /\ req.outcome = "rejected" =>
          req.pc = "done" /\ req.state_user = NoUser /\ ~req.handled

EmailsOf(uid) ==
    { TokenClaims(t).email : t \in {o \in OtherTokens : TokenClaims(o).uid = uid} }

\* The identities a completed call of get_user_info can construct for a
\* subject: the super-admin identity, or a tenant identity built from a
\* linked user record and the record of its company
CompletedIdentities(uid) ==
    { SuperAdminInfo(uid, e) : e \in {x \in EmailsOf(uid) : IsSuperAdmin(x)} }
    \cup
    { TenantInfo(uid, e, d, clients[d.company_id]) :
        e \in EmailsOf(uid),
        d \in { x \in UserDocs :
                  /\ x.exists
                  /\ x.company_id \in Companies
                  /\ clients[x.company_id].exists
                  /\ ~Falsy(clients[x.company_id].gcpProjectId) } }

\* C23: whatever other resolutions, insertions and invalidations run
\* between the steps of a request, every identity it is given is a complete
\* identity of its own subject as a completed resolution constructs it, every
\* cache entry holds such an identity under the key of its subject, and the
\* cache keeps one entry per key and at most maxsize entries.
C23_ConcurrentResolutionsSafe ==
    /\ \A i \in 1..Len(user_cache) :
          /\ user_cache[i].value # NoUser
          /\ user_cache[i].key = CacheKey(user_cache[i].value.uid)
          /\ user_cache[i].value \in CompletedIdentities(user_cache[i].value.uid)
          /\ \A j \in 1..Len(user_cache) :
                user_cache[i].key = user_cache[j].key => i = j
    /\ Len(user_cache) <= MaxSize
    /\ \A user \in {req.user_info, req.state_user} \ {NoUser} :
          /\ user.uid = req.claims.uid
          /\ user \in CompletedIdentities(req.claims.uid)

\* A request that missed the cache is about to store its identity although
\* another request's resolution of the same subject has stored one meanwhile
C23_Witness ==
    /\ req.pc = "store"
    /\ req.cache_looks = 1
    /\ req.dir_reads = 2
    /\ CacheContains(user_cache, CacheKey(req.claims.uid), clock)
    /\ CacheGet(user_cache, CacheKey(req.claims.uid)).uid = req.claims.uid

\* C24: every request that entered the gateway is eventually forwarded or
\* rejected, also when the identity provider or the directory never answers
\* a call: the call is abandoned after a timeout and the request rejected.
C24_EveryRequestEnds ==
    (req.pc # "idle") ~> (req.outcome \in {"forwarded", "rejected"})

====
